---------------------------- MODULE Spec2Model ----------------------------
(***************************************************************************)
(* A model of Source/Scene/ModelExperimental/CustomShaderStage.js: the     *)
(* pipeline stage that reconciles the attributes a custom shader uses with *)
(* the attributes a primitive has, generates the input structs of the      *)
(* shader callbacks and commits them to the shader builder and the render  *)
(* resources.                                                              *)
(*                                                                         *)
(* JavaScript objects used as insertion-ordered maps are sequences of      *)
(* [key, value] records (for-in order is insertion order); objects used as *)
(* sets are sequences of keys without repetition.  The shader builder is   *)
(* the sequence of calls this stage makes on it.  GLSL lines and names are *)
(* strings, built by concatenation as the code builds them.                *)
(***************************************************************************)
EXTENDS Integers, Sequences, FiniteSets, TLC

VARIABLES
  primitive,        \* the ModelComponents.Primitive handed to process()
  customShader,     \* renderResources.model.customShader
  shaderBuilder,    \* calls made on renderResources.shaderBuilder, in order
  lightingOptions,  \* renderResources.lightingOptions
  alphaOptions,     \* renderResources.alphaOptions
  uniformMap,       \* renderResources.uniformMap
  generatedCode,    \* the local of process() returned by generateShaderLines
  warnings,         \* calls of CustomShaderStage._oneTimeWarning, in order
  prior,            \* history: the render resources as process() found them
  pc,               \* position in process(): "start", "generated", "done"
  warned,           \* oneTimeWarning: the identifiers already warned about
  console           \* the warnings actually logged, in order

vars == <<primitive, customShader, shaderBuilder, lightingOptions,
          alphaOptions, uniformMap, generatedCode, warnings, prior, pc,
          warned, console>>

----------------------------------------------------------------------------
(* Bounds of the model.                                                    *)

\* Largest number of names in a used-attribute set of the custom shader.
MaxUsed == 2

----------------------------------------------------------------------------
(* JavaScript values and built-ins.                                        *)

Undefined == "undefined"

defined(value) == value # Undefined

\* defined(object.property), where an undefined property is an absent field
definedProperty(object, property) == property \in DOMAIN object

Digits == {"0", "1", "2", "3", "4", "5", "6", "7", "8", "9"}

UpperToLower ==
  [c \in {"A", "B", "C", "D", "E", "F", "G", "H", "I", "J", "K", "L", "M",
          "N", "O", "P", "Q", "R", "S", "T", "U", "V", "W", "X", "Y", "Z"} |->
     CASE c = "A" -> "a" [] c = "B" -> "b" [] c = "C" -> "c" [] c = "D" -> "d"
       [] c = "E" -> "e" [] c = "F" -> "f" [] c = "G" -> "g" [] c = "H" -> "h"
       [] c = "I" -> "i" [] c = "J" -> "j" [] c = "K" -> "k" [] c = "L" -> "l"
       [] c = "M" -> "m" [] c = "N" -> "n" [] c = "O" -> "o" [] c = "P" -> "p"
       [] c = "Q" -> "q" [] c = "R" -> "r" [] c = "S" -> "s" [] c = "T" -> "t"
       [] c = "U" -> "u" [] c = "V" -> "v" [] c = "W" -> "w" [] c = "X" -> "x"
       [] c = "Y" -> "y" [] c = "Z" -> "z"]

\* String.prototype.toLowerCase
RECURSIVE toLowerCase(_)
toLowerCase(s) ==
  IF Len(s) = 0 THEN ""
  ELSE LET c == SubSeq(s, 1, 1)
       IN  (IF c \in DOMAIN UpperToLower THEN UpperToLower[c] ELSE c)
             \o toLowerCase(SubSeq(s, 2, Len(s)))

\* String.prototype.substring(start), start counted from 0
substring(s, start) == SubSeq(s, start + 1, Len(s))

\* The number of digits that end s.
RECURSIVE TrailingDigits(_)
TrailingDigits(s) ==
  IF Len(s) = 0 THEN 0
  ELSE IF SubSeq(s, Len(s), Len(s)) \in Digits
       THEN 1 + TrailingDigits(SubSeq(s, 1, Len(s) - 1))
       ELSE 0

\* attributeName.replace(/_[0-9]+$/, ""): an underscore and one or more
\* digits that end the name are removed.  As a mutant: nothing is removed.
removeTrailingSetIndex_Kept(attributeName) == attributeName

removeTrailingSetIndex(attributeName) ==
  LET n == Len(attributeName)
      k == TrailingDigits(attributeName)
  IN  IF k >= 1 /\ k < n /\ SubSeq(attributeName, n - k, n - k) = "_"
      THEN SubSeq(attributeName, 1, n - k - 1)
      ELSE attributeName

\* object.hasOwnProperty(key) of an ordered map
hasOwnProperty(object, key) == \E i \in 1..Len(object) : object[i].key = key

\* object[key] = value: a new key is appended, an old one keeps its place
Put(object, key, value) ==
  IF hasOwnProperty(object, key)
  THEN [i \in 1..Len(object) |->
          IF object[i].key = key THEN [key |-> key, value |-> value]
          ELSE object[i]]
  ELSE Append(object, [key |-> key, value |-> value])

\* set.hasOwnProperty(name), and `name in set`, of an object used as a set
InSet(set, name) == \E i \in 1..Len(set) : set[i] = name

Range(seq) == {seq[i] : i \in 1..Len(seq)}

----------------------------------------------------------------------------
(* Collaborators outside CustomShaderStage.js.                             *)

\* VertexAttributeSemantic.getVariableName(semantic, setIndex)
semanticVariableName ==
  [s \in {"POSITION", "NORMAL", "TANGENT", "TEXCOORD", "COLOR", "JOINTS",
          "WEIGHTS"} |->
     CASE s = "POSITION" -> "positionMC" [] s = "NORMAL" -> "normal"
       [] s = "TANGENT" -> "tangent" [] s = "TEXCOORD" -> "texCoord"
       [] s = "COLOR" -> "color" [] s = "JOINTS" -> "joints"
       [] s = "WEIGHTS" -> "weights"]

\* String(number) of a natural number, as "_" + setIndex converts it
RECURSIVE numberToString(_)
numberToString(number) ==
  LET digit == CASE number % 10 = 0 -> "0" [] number % 10 = 1 -> "1"
                 [] number % 10 = 2 -> "2" [] number % 10 = 3 -> "3"
                 [] number % 10 = 4 -> "4" [] number % 10 = 5 -> "5"
                 [] number % 10 = 6 -> "6" [] number % 10 = 7 -> "7"
                 [] number % 10 = 8 -> "8" [] number % 10 = 9 -> "9"
  IN  IF number < 10 THEN digit
      ELSE numberToString(number \div 10) \o digit

\* The call getVariableName(attribute.semantic, attribute.setIndex); a
\* property that is undefined is a field the record does not have.
getVariableName(attribute) ==
  IF definedProperty(attribute, "setIndex")
  THEN semanticVariableName[attribute.semantic] \o "_"
         \o numberToString(attribute.setIndex)
  ELSE semanticVariableName[attribute.semantic]

\* AttributeType.getGlslType(attributeType)
getGlslType(attributeType) ==
  CASE attributeType = "SCALAR" -> "float"
    [] attributeType = "VEC2" -> "vec2"
    [] attributeType = "VEC3" -> "vec3"
    [] attributeType = "VEC4" -> "vec4"

\* CustomShaderMode.getDefineName(mode)
getDefineName(mode) == "CUSTOM_SHADER_" \o mode

\* combine(object1, object2) of two unordered maps: every key of either,
\* with object2's value for a key of both.
combine(object1, object2) ==
  [k \in DOMAIN object1 \cup DOMAIN object2 |->
     IF k \in DOMAIN object2 THEN object2[k] ELSE object1[k]]

\* oneTimeWarning(identifier, message): the message is logged unless the
\* identifier was warned about before.
oneTimeWarning(log, identifier, message) ==
  IF identifier \in log.warned THEN log
  ELSE [warned |-> log.warned \cup {identifier},
        console |-> Append(log.console,
                           [key |-> identifier, message |-> message])]

\* The imported GLSL epilogues of the two stages.
CustomShaderStageVS == "CustomShaderStageVS.glsl"
CustomShaderStageFS == "CustomShaderStageFS.glsl"

----------------------------------------------------------------------------
(* Generation: lines 137-447.                                              *)

\* getAttributeNames: the catalog, canonical variable name -> attribute
RECURSIVE getAttributeNamesFrom(_, _, _)
getAttributeNamesFrom(attributes, i, names) ==
  IF i > Len(attributes) THEN names
  ELSE LET attribute == attributes[i]
           variableName ==
             IF definedProperty(attribute, "semantic")
             THEN getVariableName(attribute)
             ELSE toLowerCase(substring(attribute.name, 1))
       IN  getAttributeNamesFrom(attributes, i + 1,
                                 Put(names, variableName, attribute))

getAttributeNames(attributes) == getAttributeNamesFrom(attributes, 1, <<>>)

generateAttributeField(name, attribute) ==
  <<getGlslType(attribute.type), name>>

\* GLSL types of standard attribute types when uniquely defined
attributeTypeLUT ==
  [name \in {"positionMC", "normal", "tangent", "texCoord", "joints",
             "weights"} |->
     CASE name = "positionMC" -> "vec3" [] name = "normal" -> "vec3"
       [] name = "tangent" -> "vec4" [] name = "texCoord" -> "vec2"
       [] name = "joints" -> "ivec4" [] name = "weights" -> "vec4"]

\* Corresponding attribute values
attributeDefaultValueLUT ==
  [name \in {"positionMC", "normal", "tangent", "texCoord", "joints",
             "weights"} |->
     CASE name = "positionMC" -> "vec3(0.0)"
       [] name = "normal" -> "vec3(0.0, 0.0, 1.0)"
       [] name = "tangent" -> "vec4(1.0, 0.0, 0.0, 1.0)"
       [] name = "texCoord" -> "vec2(0.0)"
       [] name = "joints" -> "ivec4(0)"
       [] name = "weights" -> "vec4(0.0)"]

\* As a mutant: a color attribute is given a vec4 default instead of
\* being left without one.
inferAttributeDefaults_Color(attributeName) ==
  LET trimmed == removeTrailingSetIndex(attributeName)
  IN  IF trimmed \in DOMAIN attributeTypeLUT
      THEN [isDefined |-> TRUE,
            attributeField |-> <<attributeTypeLUT[trimmed], attributeName>>,
            value |-> attributeDefaultValueLUT[trimmed]]
      ELSE IF trimmed = "color"
      THEN [isDefined |-> TRUE,
            attributeField |-> <<"vec4", attributeName>>,
            value |-> "vec4(1.0)"]
      ELSE [isDefined |-> FALSE]

\* inferAttributeDefaults: [isDefined |-> FALSE] is the undefined it returns.
\* The lookup attributeTypeLUT[trimmed] is a lookup among the table's own
\* keys: no name of the model is a member of Object.prototype.
inferAttributeDefaults(attributeName) ==
  LET trimmed == removeTrailingSetIndex(attributeName)
  IN  IF ~(trimmed \in DOMAIN attributeTypeLUT)
      THEN [isDefined |-> FALSE]
      ELSE [isDefined |-> TRUE,
            attributeField |-> <<attributeTypeLUT[trimmed], attributeName>>,
            value |-> attributeDefaultValueLUT[trimmed]]

\* As a mutant: the missing attributes are collected last to first.
partitionAttributes_Reversed(primitiveAttributes, shaderAttributeSet) ==
  LET missing ==
        SelectSeq(shaderAttributeSet,
                  LAMBDA name : ~hasOwnProperty(primitiveAttributes, name))
  IN  [addToShader |->
         SelectSeq(primitiveAttributes,
                   LAMBDA entry : InSet(shaderAttributeSet, entry.key)),
       missingAttributes |->
         [i \in 1..Len(missing) |-> missing[Len(missing) + 1 - i]]]

\* As a mutant: every attribute of the primitive is added to the shader.
partitionAttributes_All(primitiveAttributes, shaderAttributeSet) ==
  [addToShader |-> primitiveAttributes,
   missingAttributes |->
     SelectSeq(shaderAttributeSet,
               LAMBDA name : ~hasOwnProperty(primitiveAttributes, name))]

partitionAttributes(primitiveAttributes, shaderAttributeSet) ==
  [addToShader |->
     SelectSeq(primitiveAttributes,
               LAMBDA entry : InSet(shaderAttributeSet, entry.key)),
   missingAttributes |->
     SelectSeq(shaderAttributeSet,
               LAMBDA name : ~hasOwnProperty(primitiveAttributes, name))]

\* Lines 221-238: the fields and initialization lines of the attributes the
\* primitive has.
vertexAttributeFields(addToShader) ==
  [i \in 1..Len(addToShader) |->
     generateAttributeField(addToShader[i].key, addToShader[i].value)]

vertexInitializationLines(addToShader) ==
  [i \in 1..Len(addToShader) |->
     "vsInput.attributes." \o addToShader[i].key \o " = attributes."
       \o addToShader[i].key \o ";"]

\* Lines 240-263: the loop over the missing attributes, from index i on.
RECURSIVE vertexDefaultsLoop(_, _, _, _)
vertexDefaultsLoop(needsDefault, i, attributeFields, initializationLines) ==
  IF i > Len(needsDefault)
  THEN [returned |-> FALSE, attributeFields |-> attributeFields,
        initializationLines |-> initializationLines]
  ELSE LET variableName == needsDefault[i]
           attributeDefaults == inferAttributeDefaults(variableName)
       IN  IF ~attributeDefaults.isDefined
           THEN [returned |-> TRUE,
                 warning |->
                   [key |-> "CustomShaderStage.incompatiblePrimitiveVS",
                    message |-> "Primitive is missing attribute "
                      \o variableName \o ", disabling custom vertex shader"]]
           ELSE vertexDefaultsLoop(needsDefault, i + 1,
                  Append(attributeFields, attributeDefaults.attributeField),
                  Append(initializationLines,
                         "vsInput.attributes." \o variableName \o " = "
                           \o attributeDefaults.value \o ";"))

\* generateVertexShaderLines: the vertexLines it leaves and its warnings
generateVertexShaderLines(shader, namedAttributes, vertexLines) ==
  LET categories == partitionAttributes(namedAttributes,
                      shader.usedVariablesVertex.attributeSet)
      loop == vertexDefaultsLoop(categories.missingAttributes, 1,
                vertexAttributeFields(categories.addToShader),
                vertexInitializationLines(categories.addToShader))
  IN  IF loop.returned
      THEN [lines |-> vertexLines, warnings |-> <<loop.warning>>]
      ELSE [lines |-> [enabled |-> TRUE,
                       attributeFields |-> loop.attributeFields,
                       initializationLines |-> loop.initializationLines],
            warnings |-> <<>>]

generatePositionBuiltins(shader) ==
  LET usedVariables == shader.usedVariablesFragment.positionSet
      builtin(name) ==
        IF InSet(usedVariables, name)
        THEN [fields |-> << <<"vec3", name>> >>,
              lines |-> <<"fsInput." \o name \o " = attributes." \o name
                            \o ";">>]
        ELSE [fields |-> <<>>, lines |-> <<>>]
  IN  [fragmentInputFields |->
         builtin("positionMC").fields \o builtin("positionWC").fields
           \o builtin("positionEC").fields,
       initializationLines |->
         builtin("positionMC").lines \o builtin("positionWC").lines
           \o builtin("positionEC").lines]

\* Lines 316-333
fragmentAttributeFields(addToShader) ==
  [i \in 1..Len(addToShader) |->
     generateAttributeField(addToShader[i].key, addToShader[i].value)]

fragmentInitializationLines(addToShader) ==
  [i \in 1..Len(addToShader) |->
     "fsInput.attributes." \o addToShader[i].key \o " = attributes."
       \o addToShader[i].key \o ";"]

\* Lines 335-359
RECURSIVE fragmentDefaultsLoop(_, _, _, _)
fragmentDefaultsLoop(needsDefault, i, attributeFields, initializationLines) ==
  IF i > Len(needsDefault)
  THEN [returned |-> FALSE, attributeFields |-> attributeFields,
        initializationLines |-> initializationLines]
  ELSE LET variableName == needsDefault[i]
           attributeDefaults == inferAttributeDefaults(variableName)
       IN  IF ~attributeDefaults.isDefined
           THEN [returned |-> TRUE,
                 warning |->
                   [key |-> "CustomShaderStage.incompatiblePrimitiveFS",
                    message |-> "Primitive is missing attribute "
                      \o variableName
                      \o ", disabling custom fragment shader."]]
           ELSE fragmentDefaultsLoop(needsDefault, i + 1,
                  Append(attributeFields, attributeDefaults.attributeField),
                  Append(initializationLines,
                         "fsInput.attributes." \o variableName \o " = "
                           \o attributeDefaults.value \o ";"))

generateFragmentShaderLines(shader, namedAttributes, fragmentLines) ==
  LET categories == partitionAttributes(namedAttributes,
                      shader.usedVariablesFragment.attributeSet)
      loop == fragmentDefaultsLoop(categories.missingAttributes, 1,
                fragmentAttributeFields(categories.addToShader),
                fragmentInitializationLines(categories.addToShader))
      positionBuiltins == generatePositionBuiltins(shader)
  IN  IF loop.returned
      THEN [lines |-> fragmentLines, warnings |-> <<loop.warning>>]
      ELSE [lines |-> [enabled |-> TRUE,
                       attributeFields |-> loop.attributeFields,
                       fragmentInputFields |->
                         positionBuiltins.fragmentInputFields,
                       initializationLines |->
                         positionBuiltins.initializationLines
                           \o loop.initializationLines],
            warnings |-> <<>>]

\* Lines 433-435.  As a mutant: the fragment stage's outcome is not asked.
shouldComputePositionWC_Unguarded(shader, fragmentLines) ==
  InSet(shader.usedVariablesFragment.positionSet, "positionWC")

shouldComputePositionWC(shader, fragmentLines) ==
  InSet(shader.usedVariablesFragment.positionSet, "positionWC")
    /\ fragmentLines.enabled

\* Lines 421 and 425: whether a stage's generation is attempted.  As a
\* mutant: the vertex stage is generated without asking for its text.
vertexTextDefined_Always(shader) == TRUE

vertexTextDefined(shader) == defined(shader.vertexShaderText)

fragmentTextDefined(shader) == defined(shader.fragmentShaderText)

\* generateShaderLines: the record it returns and the warnings it requests
generateShaderLines(shader, prim) ==
  LET namedAttributes == getAttributeNames(prim.attributes)
      vertex ==
        IF vertexTextDefined(shader)
        THEN generateVertexShaderLines(shader, namedAttributes,
                                       [enabled |-> FALSE])
        ELSE [lines |-> [enabled |-> FALSE], warnings |-> <<>>]
      fragment ==
        IF fragmentTextDefined(shader)
        THEN generateFragmentShaderLines(shader, namedAttributes,
                                         [enabled |-> FALSE])
        ELSE [lines |-> [enabled |-> FALSE], warnings |-> <<>>]
  IN  [code |->
         [vertexLines |-> vertex.lines,
          fragmentLines |-> fragment.lines,
          vertexLinesEnabled |-> vertex.lines.enabled,
          fragmentLinesEnabled |-> fragment.lines.enabled,
          customShaderEnabled |->
            vertex.lines.enabled \/ fragment.lines.enabled,
          shouldComputePositionWC |->
            shouldComputePositionWC(shader, fragment.lines)],
       warnings |-> vertex.warnings \o fragment.warnings]

----------------------------------------------------------------------------
(* Emission: lines 449-556, and the rest of process(), lines 60-134.       *)

Call(fn, args) == [fn |-> fn, args |-> args]

RECURSIVE addStructFields(_, _, _)
addStructFields(structId, fields, i) ==
  IF i > Len(fields) THEN <<>>
  ELSE <<Call("addStructField", <<structId, fields[i][1], fields[i][2]>>)>>
         \o addStructFields(structId, fields, i + 1)

RECURSIVE addFunctionLines(_, _, _)
addFunctionLines(functionId, lines, i) ==
  IF i > Len(lines) THEN <<>>
  ELSE <<Call("addFunctionLine", <<functionId, lines[i]>>)>>
         \o addFunctionLines(functionId, lines, i + 1)

addVertexLinesToShader(vertexLines) ==
  <<Call("addStruct", <<"AttributesVS", "Attributes", "VERTEX">>)>>
    \o addStructFields("AttributesVS", vertexLines.attributeFields, 1)
    \o <<Call("addStruct", <<"VertexInput", "VertexInput", "VERTEX">>),
         Call("addStructField", <<"VertexInput", "Attributes", "attributes">>),
         Call("addFunction",
              <<"initializeInputStructVS",
                "void initializeInputStruct(out VertexInput vsInput, ProcessedAttributes attributes)",
                "VERTEX">>)>>
    \o addFunctionLines("initializeInputStructVS",
                        vertexLines.initializationLines, 1)

addFragmentLinesToShader(fragmentLines) ==
  <<Call("addStruct", <<"AttributesFS", "Attributes", "FRAGMENT">>)>>
    \o addStructFields("AttributesFS", fragmentLines.attributeFields, 1)
    \o <<Call("addStruct", <<"FragmentInput", "FragmentInput", "FRAGMENT">>),
         Call("addStructField",
              <<"FragmentInput", "Attributes", "attributes">>)>>
    \o addStructFields("FragmentInput", fragmentLines.fragmentInputFields, 1)
    \o <<Call("addFunction",
              <<"initializeInputStructFS",
                "void initializeInputStruct(out FragmentInput fsInput, ProcessedAttributes attributes)",
                "FRAGMENT">>)>>
    \o addFunctionLines("initializeInputStructFS",
                        fragmentLines.initializationLines, 1)

addLinesToShader(shader, code) ==
  (IF code.vertexLines.enabled
   THEN addVertexLinesToShader(code.vertexLines)
          \o <<Call("addVertexLines",
                    << <<"#line 0", shader.vertexShaderText,
                         CustomShaderStageVS>> >>)>>
   ELSE <<>>)
    \o
  (IF code.fragmentLines.enabled
   THEN addFragmentLinesToShader(code.fragmentLines)
          \o <<Call("addFragmentLines",
                    << <<"#line 0", shader.fragmentShaderText,
                         CustomShaderStageFS>> >>)>>
   ELSE <<>>)

\* Line 60: whether process() returns before touching anything.  As a
\* mutant: it never does.
returnsEarly_Never(code) == FALSE

returnsEarly(code) == ~code.customShaderEnabled

\* Lines 66-72
addPositionDefine(code) ==
  IF code.shouldComputePositionWC
  THEN <<Call("addDefine", <<"COMPUTE_POSITION_WC", Undefined, "VERTEX">>)>>
  ELSE <<>>

\* Lines 74-96
addStageDefines(shader) ==
  (IF defined(shader.vertexShaderText)
   THEN <<Call("addDefine",
               <<"HAS_CUSTOM_VERTEX_SHADER", Undefined, "VERTEX">>)>>
   ELSE <<>>)
    \o
  (IF defined(shader.fragmentShaderText)
   THEN <<Call("addDefine",
               <<"HAS_CUSTOM_FRAGMENT_SHADER", Undefined, "FRAGMENT">>),
          Call("addDefine",
               <<getDefineName(shader.mode), Undefined, "FRAGMENT">>)>>
   ELSE <<>>)

\* Lines 98-104
addUniforms(uniforms) ==
  [i \in 1..Len(uniforms) |->
     Call("addUniform", <<uniforms[i].value.type, uniforms[i].key>>)]

\* Lines 106-112
addVaryings(varyings) ==
  [i \in 1..Len(varyings) |->
     Call("addVarying", <<varyings[i].value, varyings[i].key>>)]

\* Lines 115-117
overrideLightingModel(shader, options) ==
  IF defined(shader.lightingModel)
  THEN [options EXCEPT !.lightingModel = shader.lightingModel]
  ELSE options

\* As mutants of lines 119-129: the translucent branch is missing; the
\* other branch is missing.
setAlphaOptions_NeverTranslucent(shader, options) ==
  [options EXCEPT !.pass = Undefined, !.alphaMode = "OPAQUE"]

setAlphaOptions_OnlyTranslucent(shader, options) ==
  IF shader.isTranslucent
  THEN [options EXCEPT !.pass = "TRANSLUCENT", !.alphaMode = "BLEND"]
  ELSE options

\* Lines 119-129
setAlphaOptions(shader, options) ==
  IF shader.isTranslucent
  THEN [options EXCEPT !.pass = "TRANSLUCENT", !.alphaMode = "BLEND"]
  ELSE [options EXCEPT !.pass = Undefined, !.alphaMode = "OPAQUE"]

\* Lines 131-134.  As a mutant: the arguments of combine are exchanged.
combineUniformMaps_Exchanged(map, shader) == combine(shader.uniformMap, map)

combineUniformMaps(map, shader) == combine(map, shader.uniformMap)

----------------------------------------------------------------------------
(* The inputs of one process() call.                                       *)

NormalAttribute == [semantic |-> "NORMAL", type |-> "VEC3"]
TexCoordAttribute == [semantic |-> "TEXCOORD", setIndex |-> 0, type |-> "VEC2"]
TemperatureAttribute == [name |-> "_TEMPERATURE", type |-> "SCALAR"]

\* The attributes a primitive may carry, in the order it lists them.
AttributePool == <<NormalAttribute, TexCoordAttribute, TemperatureAttribute>>

\* The primitives: every sublist of the pool.
Primitives ==
  {[attributes |->
      SelectSeq(AttributePool, LAMBDA attribute : attribute \in chosen)] :
     chosen \in SUBSET Range(AttributePool)}

\* The names a shader may use: present or missing according to the
\* primitive, inferable (with and without a set index) or not.
UsedNames == {"normal", "texCoord_0", "texCoord_1", "color_0", "temperature"}

\* The used-attribute sets: names without repetition, in the order used.
AttributeSets ==
  {set \in UNION {[1..n -> UsedNames] : n \in 0..MaxUsed} :
     \A i, j \in 1..Len(set) : i # j => set[i] # set[j]}

\* Used-attribute sets of the calls that vary everything else.
FewAttributeSets == {<<>>, <<"texCoord_1">>, <<"color_0">>}

PositionSets == {<<>>, <<"positionEC">>, <<"positionWC", "positionMC">>}

VertexShaderText == "void vertexMain(VertexInput vsInput, inout vec3 position) {}"
FragmentShaderText == "void fragmentMain(FragmentInput fsInput, inout czm_modelMaterial material) {}"

EmptyMap == [k \in {} |-> Undefined]

\* A custom shader that declares nothing beyond its texts and used sets.
PlainShaders ==
  [vertexShaderText : {VertexShaderText},
   fragmentShaderText : {FragmentShaderText},
   usedVariablesVertex : [attributeSet : AttributeSets],
   usedVariablesFragment :
     [attributeSet : AttributeSets, positionSet : {<<>>}],
   mode : {"MODIFY_MATERIAL"},
   uniforms : {<<>>},
   varyings : {<<>>},
   lightingModel : {Undefined},
   isTranslucent : {FALSE},
   uniformMap : {EmptyMap}]

\* Custom shaders with or without texts, uniforms, varyings, a lighting
\* model, translucency and uniform values.
DeclaringShaders ==
  [vertexShaderText : {Undefined, VertexShaderText},
   fragmentShaderText : {Undefined, FragmentShaderText},
   usedVariablesVertex : [attributeSet : FewAttributeSets],
   usedVariablesFragment :
     [attributeSet : FewAttributeSets, positionSet : PositionSets],
   mode : {"MODIFY_MATERIAL", "REPLACE_MATERIAL"},
   uniforms : {<<>>, <<[key |-> "u_time", value |-> [type |-> "float"]]>>},
   varyings : {<<>>, <<[key |-> "v_selectedColor", value |-> "vec3"]>>},
   lightingModel : {Undefined, "UNLIT"},
   isTranslucent : BOOLEAN,
   uniformMap : {EmptyMap,
                 [k \in {"u_time", "u_shared"} |-> "customShaderValue"]}]

\* The render resources as the earlier pipeline stages may leave them.
PriorResources ==
  [lightingOptions : {[lightingModel |-> "PBR"]},
   alphaOptions : {[pass |-> Undefined, alphaMode |-> "OPAQUE"],
                   [pass |-> "TRANSLUCENT", alphaMode |-> "BLEND"]},
   uniformMap : {EmptyMap,
                 [k \in {"u_shared", "u_baseColor"} |-> "materialValue"]}]

DefaultResources ==
  [lightingOptions |-> [lightingModel |-> "PBR"],
   alphaOptions |-> [pass |-> Undefined, alphaMode |-> "OPAQUE"],
   uniformMap |-> EmptyMap]

NoCode ==
  [vertexLines |-> [enabled |-> FALSE],
   fragmentLines |-> [enabled |-> FALSE],
   vertexLinesEnabled |-> FALSE,
   fragmentLinesEnabled |-> FALSE,
   customShaderEnabled |-> FALSE,
   shouldComputePositionWC |-> FALSE]

----------------------------------------------------------------------------
(* The state machine of one process() call.                                *)

Init ==
  /\ \/ /\ primitive \in Primitives
        /\ customShader \in PlainShaders
        /\ prior = DefaultResources
     \/ /\ primitive = [attributes |-> <<NormalAttribute>>]
        /\ customShader \in DeclaringShaders
        /\ prior \in PriorResources
  /\ shaderBuilder = <<>>
  /\ lightingOptions = prior.lightingOptions
  /\ alphaOptions = prior.alphaOptions
  /\ uniformMap = prior.uniformMap
  /\ generatedCode = NoCode
  /\ warnings = <<>>
  /\ pc = "start"
  /\ warned = {}
  /\ console = <<>>

\* The calls of CustomShaderStage._oneTimeWarning (line 559) that the
\* requests of one generation make, in order.
RECURSIVE requestWarnings(_, _, _)
requestWarnings(log, requests, i) ==
  IF i > Len(requests) THEN log
  ELSE requestWarnings(
         oneTimeWarning(log, requests[i].key, requests[i].message),
         requests, i + 1)

\* Line 56: generateShaderLines(customShader, primitive)
Generate ==
  /\ pc = "start"
  /\ LET generated == generateShaderLines(customShader, primitive)
         log == requestWarnings([warned |-> warned, console |-> console],
                                generated.warnings, 1)
     IN  /\ generatedCode' = generated.code
         /\ warnings' = warnings \o generated.warnings
         /\ warned' = log.warned
         /\ console' = log.console
  /\ pc' = "generated"
  /\ UNCHANGED <<primitive, customShader, shaderBuilder, lightingOptions,
                 alphaOptions, uniformMap, prior>>

\* Lines 60-62: the custom shader is skipped
ReturnEarly ==
  /\ pc = "generated"
  /\ returnsEarly(generatedCode)
  /\ pc' = "done"
  /\ UNCHANGED <<primitive, customShader, shaderBuilder, lightingOptions,
                 alphaOptions, uniformMap, generatedCode, warnings, prior,
                 warned, console>>

\* Lines 63-134: the generated code and the shader's settings are applied
Commit ==
  /\ pc = "generated"
  /\ ~returnsEarly(generatedCode)
  /\ shaderBuilder' =
       shaderBuilder
         \o addLinesToShader(customShader, generatedCode)
         \o addPositionDefine(generatedCode)
         \o addStageDefines(customShader)
         \o addUniforms(customShader.uniforms)
         \o addVaryings(customShader.varyings)
  /\ lightingOptions' = overrideLightingModel(customShader, lightingOptions)
  /\ alphaOptions' = setAlphaOptions(customShader, alphaOptions)
  /\ uniformMap' = combineUniformMaps(uniformMap, customShader)
  /\ pc' = "done"
  /\ UNCHANGED <<primitive, customShader, generatedCode, warnings, prior,
                 warned, console>>

Next == Generate \/ ReturnEarly \/ Commit

Spec == Init /\ [][Next]_vars

----------------------------------------------------------------------------
(* process() called again and again, for the primitives of a model that    *)
(* share its custom shader; the one-time warnings outlive the calls.       *)

\* Custom shaders whose two used-attribute sets vary, with or without the
\* texts.
WarningShaders ==
  [vertexShaderText : {Undefined, VertexShaderText},
   fragmentShaderText : {Undefined, FragmentShaderText},
   usedVariablesVertex : [attributeSet : AttributeSets],
   usedVariablesFragment :
     [attributeSet : AttributeSets, positionSet : {<<>>}],
   mode : {"MODIFY_MATERIAL"},
   uniforms : {<<>>},
   varyings : {<<>>},
   lightingModel : {Undefined},
   isTranslucent : {FALSE},
   uniformMap : {EmptyMap}]

InitCalls ==
  /\ primitive \in Primitives
  /\ customShader \in WarningShaders
  /\ prior = DefaultResources
  /\ shaderBuilder = <<>>
  /\ lightingOptions = prior.lightingOptions
  /\ alphaOptions = prior.alphaOptions
  /\ uniformMap = prior.uniformMap
  /\ generatedCode = NoCode
  /\ warnings = <<>>
  /\ pc = "start"
  /\ warned = {}
  /\ console = <<>>

\* process() is called for another primitive, with render resources of its
\* own.
NextCall ==
  /\ pc = "done"
  /\ primitive' \in Primitives
  /\ shaderBuilder' = <<>>
  /\ lightingOptions' = prior.lightingOptions
  /\ alphaOptions' = prior.alphaOptions
  /\ uniformMap' = prior.uniformMap
  /\ generatedCode' = NoCode
  /\ warnings' = <<>>
  /\ pc' = "start"
  /\ UNCHANGED <<customShader, prior, warned, console>>

NextCalls == Generate \/ ReturnEarly \/ Commit \/ NextCall

SpecCalls == InitCalls /\ [][NextCalls]_vars

----------------------------------------------------------------------------
(* What the properties speak of.                                           *)

Done == pc = "done"

\* The canonical names of the primitive's attributes.
Catalog == {entry.key : entry \in Range(getAttributeNames(primitive.attributes))}

VertexUsed == Range(customShader.usedVariablesVertex.attributeSet)
FragmentUsed == Range(customShader.usedVariablesFragment.attributeSet)

HasVertexText == customShader.vertexShaderText # Undefined
HasFragmentText == customShader.fragmentShaderText # Undefined

\* The default-inference table as the specification gives it, for the
\* names a shader of the model may use.
ExpectedDefaults ==
  [name \in {"normal", "texCoord_0", "texCoord_1"} |->
     IF name = "normal"
     THEN [type |-> "vec3", value |-> "vec3(0.0, 0.0, 1.0)"]
     ELSE [type |-> "vec2", value |-> "vec2(0.0)"]]

Inferable(name) == name \in DOMAIN ExpectedDefaults

\* A stage has text and uses a name the primitive lacks and the table
\* cannot infer.
MustAbort(hasText, used) ==
  hasText /\ \E name \in used : name \notin Catalog /\ ~Inferable(name)

\* A stage has text and every name it uses is present or inferable.
MustSucceed(hasText, used) ==
  hasText /\ \A name \in used : name \in Catalog \/ Inferable(name)

IsVertexStageCall(call) ==
  \/ call.fn = "addStruct" /\ call.args[3] = "VERTEX"
  \/ call.fn = "addStructField" /\ call.args[1] \in {"AttributesVS", "VertexInput"}
  \/ call.fn = "addFunction" /\ call.args[3] = "VERTEX"
  \/ call.fn = "addFunctionLine" /\ call.args[1] = "initializeInputStructVS"
  \/ call.fn = "addVertexLines"

IsFragmentStageCall(call) ==
  \/ call.fn = "addStruct" /\ call.args[3] = "FRAGMENT"
  \/ call.fn = "addStructField" /\ call.args[1] \in {"AttributesFS", "FragmentInput"}
  \/ call.fn = "addFunction" /\ call.args[3] = "FRAGMENT"
  \/ call.fn = "addFunctionLine" /\ call.args[1] = "initializeInputStructFS"
  \/ call.fn = "addFragmentLines"

VertexStageCalls == SelectSeq(shaderBuilder, IsVertexStageCall)
FragmentStageCalls == SelectSeq(shaderBuilder, IsFragmentStageCall)

\* The addStructField calls on one struct and the addFunctionLine calls on
\* one function, in order.
FieldsOf(structId) ==
  SelectSeq(shaderBuilder,
            LAMBDA call : call.fn = "addStructField" /\ call.args[1] = structId)

LinesOf(functionId) ==
  SelectSeq(shaderBuilder,
            LAMBDA call : call.fn = "addFunctionLine" /\ call.args[1] = functionId)

HasDefine(name) ==
  \E i \in 1..Len(shaderBuilder) :
    shaderBuilder[i].fn = "addDefine" /\ shaderBuilder[i].args[1] = name

ResourcesUntouched ==
  /\ lightingOptions = prior.lightingOptions
  /\ alphaOptions = prior.alphaOptions
  /\ uniformMap = prior.uniformMap

----------------------------------------------------------------------------
(* The properties.                                                         *)

\* C1: a custom shader with neither vertex nor fragment text is never
\* enabled and process() makes no call on the shader builder, whatever the
\* shader's used-attribute sets, uniforms and varyings are.
C1_NoTextNoCalls ==
  (~HasVertexText /\ ~HasFragmentText) =>
    /\ ~generatedCode.customShaderEnabled
    /\ shaderBuilder = <<>>

C1_Witness ==
  /\ Done
  /\ ~HasVertexText /\ ~HasFragmentText
  /\ VertexUsed # {} /\ FragmentUsed # {}
  /\ customShader.uniforms # <<>> /\ customShader.varyings # <<>>

C3_PositionWC ==
  Done =>
    /\ generatedCode.shouldComputePositionWC
         <=> /\ "positionWC"
                  \in Range(customShader.usedVariablesFragment.positionSet)
             /\ generatedCode.fragmentLines.enabled
    /\ HasDefine("COMPUTE_POSITION_WC")
         <=> generatedCode.shouldComputePositionWC

C3_Witness ==
  /\ Done
  /\ generatedCode.shouldComputePositionWC
  /\ HasDefine("COMPUTE_POSITION_WC")

C5_InferredDefaults ==
  Done =>
    /\ MustSucceed(HasVertexText, VertexUsed) =>
         /\ generatedCode.vertexLines.enabled
         /\ \A name \in VertexUsed \ Catalog :
              /\ Call("addStructField",
                      <<"AttributesVS", ExpectedDefaults[name].type, name>>)
                   \in Range(shaderBuilder)
              /\ Call("addFunctionLine",
                      <<"initializeInputStructVS",
                        "vsInput.attributes." \o name \o " = "
                          \o ExpectedDefaults[name].value \o ";">>)
                   \in Range(shaderBuilder)
    /\ MustSucceed(HasFragmentText, FragmentUsed) =>
         /\ generatedCode.fragmentLines.enabled
         /\ \A name \in FragmentUsed \ Catalog :
              /\ Call("addStructField",
                      <<"AttributesFS", ExpectedDefaults[name].type, name>>)
                   \in Range(shaderBuilder)
              /\ Call("addFunctionLine",
                      <<"initializeInputStructFS",
                        "fsInput.attributes." \o name \o " = "
                          \o ExpectedDefaults[name].value \o ";">>)
                   \in Range(shaderBuilder)

C5_Witness ==
  /\ Done
  /\ Catalog \cap {"normal", "texCoord_0"} = {}
  /\ VertexUsed = {"normal", "texCoord_0"}
  /\ "texCoord_1" \in FragmentUsed
  /\ generatedCode.vertexLines.enabled
  /\ generatedCode.fragmentLines.enabled

\* C6: when the custom shader ends enabled and is translucent, process()
\* leaves alphaOptions.pass translucent and alphaOptions.alphaMode blend,
\* whatever they were before.
C6_Translucent ==
  (Done /\ generatedCode.customShaderEnabled /\ customShader.isTranslucent) =>
    /\ alphaOptions.pass = "TRANSLUCENT"
    /\ alphaOptions.alphaMode = "BLEND"

C6_Witness ==
  /\ Done /\ generatedCode.customShaderEnabled /\ customShader.isTranslucent
  /\ prior.alphaOptions.alphaMode = "OPAQUE"

\* C7, as the specification states it: when the custom shader ends enabled
\* and is not translucent, process() leaves the pass and the alpha mode as
\* the pipeline had them and does not set the alpha mode to opaque.
C7_LeftAtDefault ==
  (Done /\ generatedCode.customShaderEnabled /\ ~customShader.isTranslucent) =>
    /\ alphaOptions.pass = prior.alphaOptions.pass
    /\ alphaOptions.alphaMode = prior.alphaOptions.alphaMode

\* C7, amended: when the custom shader ends enabled and is not
\* translucent, process() sets alphaOptions.pass to undefined (the default
\* pass) and alphaOptions.alphaMode to opaque, whatever they were before.
C7_ResetToOpaque ==
  (Done /\ generatedCode.customShaderEnabled /\ ~customShader.isTranslucent) =>
    /\ alphaOptions.pass = Undefined
    /\ alphaOptions.alphaMode = "OPAQUE"

C7_Witness ==
  /\ Done /\ generatedCode.customShaderEnabled /\ ~customShader.isTranslucent
  /\ prior.alphaOptions.pass = "TRANSLUCENT"
  /\ prior.alphaOptions.alphaMode = "BLEND"

C9_DefinesOnlyForEnabledStages ==
  Done =>
    /\ HasDefine("HAS_CUSTOM_VERTEX_SHADER")
         => generatedCode.vertexLines.enabled
    /\ HasDefine("HAS_CUSTOM_FRAGMENT_SHADER")
         => generatedCode.fragmentLines.enabled
    /\ HasDefine(getDefineName(customShader.mode))
         => generatedCode.fragmentLines.enabled

\* C10: the shader builder and the render resources change only in the
\* step after generation, and when every stage that has text aborts,
\* process() ends with no call made and the lighting model, the pass, the
\* alpha mode and the uniform map as they were.
C10_GenerateThenCommit ==
  /\ [][(shaderBuilder' # shaderBuilder \/ lightingOptions' # lightingOptions
           \/ alphaOptions' # alphaOptions \/ uniformMap' # uniformMap)
          => pc = "generated"]_vars
  /\ []((Done /\ (HasVertexText \/ HasFragmentText)
           /\ ~generatedCode.customShaderEnabled)
          => (shaderBuilder = <<>> /\ ResourcesUntouched))

C10_Witness ==
  /\ Done
  /\ HasVertexText /\ HasFragmentText
  /\ ~generatedCode.customShaderEnabled
  /\ customShader.uniforms # <<>> /\ customShader.varyings # <<>>
  /\ customShader.lightingModel # Undefined
  /\ customShader.isTranslucent
  /\ prior.alphaOptions.alphaMode = "OPAQUE"
  /\ customShader.uniformMap # EmptyMap

\* The warnings requested in this call under one identifier.
RequestsUnder(identifier) ==
  SelectSeq(warnings, LAMBDA warning : warning.key = identifier)

\* The first name, in the order of a used-attribute set, that the
\* primitive lacks and the table cannot infer.
FirstNotInferable(attributeSet) ==
  attributeSet[CHOOSE i \in 1..Len(attributeSet) :
                 /\ attributeSet[i] \notin Catalog
                 /\ ~Inferable(attributeSet[i])
                 /\ \A j \in 1..(i - 1) :
                      attributeSet[j] \in Catalog \/ Inferable(attributeSet[j])]

============================================================================
